---- MODULE Spec2Model ----
(***************************************************************************)
(* WHOIS resolution of thinkphp/whois-lookup-tool (src/src/main.rs):       *)
(* main -> perform_whois -> query_whois_server -> print_whois_result.      *)
(* Text is a sequence of one-character strings, so that splitting,         *)
(* trimming and formatting are computed as the code computes them.  Host   *)
(* names are only ever compared and printed, so they are plain strings.    *)
(* The model starts after the command line has been parsed into the        *)
(* Whois sub-command; the peers and the network are the environment.       *)
(***************************************************************************)
EXTENDS Integers, Sequences, FiniteSets, TLC

VARIABLES target, colorize, tld, pc, attempt, calls, conns, response, qres, printed,
          stdout, stderr, ret, exit

vars == <<target, colorize, tld, pc, attempt, calls, conns, response, qres, printed,
          stdout, stderr, ret, exit>>

----------------------------------------------------------------------------
(* Bounds *)

MaxTargetLen == 3
MaxRespLen == 2

----------------------------------------------------------------------------
(* Option / Result values *)

None == <<>>
Some(v) == <<v>>
Ok(v) == [ok |-> TRUE, val |-> v]
Err(e) == [ok |-> FALSE, val |-> e]
Pending == [ok |-> FALSE, val |-> <<"pending">>]

----------------------------------------------------------------------------
(* Registry *)

WHOIS_PORT == 43
TIMEOUT_SECS == 10
IANA == "whois.iana.org"

create_whois_servers ==
    << << <<"c","o","m">>, "whois.verisign-grs.com", <<"d","o","m","a","i","n"," ">> >>,
       << <<"n","e","t">>, "whois.verisign-grs.com", <<"d","o","m","a","i","n"," ">> >>,
       << <<"o","r","g">>, "whois.pir.org", <<>> >>,
       << <<"e","d","u">>, "whois.educause.edu", <<>> >>,
       << <<"i","t">>, "whois.nic.it", <<>> >>,
       << <<"u","k">>, "whois.nic.uk", <<>> >>,
       << <<"r","u">>, "whois.tcinet.ru", <<>> >>,
       << <<"d","e">>, "whois.denic.de", <<"-","T"," ","d","n"," ">> >>,
       << <<"n","l">>, "whois.domain-registry.nl", <<>> >> >>

----------------------------------------------------------------------------
(* Pure helpers *)

\* str::split('.') : the segments between the separators; never empty.
RECURSIVE split(_, _)
split(s, sep) ==
    IF \E i \in 1..Len(s) : s[i] = sep
    THEN LET i == CHOOSE k \in 1..Len(s) :
                      s[k] = sep /\ \A j \in 1..(k-1) : s[j] # sep
         IN  <<SubSeq(s, 1, i-1)>> \o split(SubSeq(s, i+1, Len(s)), sep)
    ELSE <<s>>

\* Iterator::last
last(xs) == IF xs = <<>> THEN None ELSE Some(xs[Len(xs)])

get_tld(domain) == last(split(domain, "."))

\* ASCII letters, for comparisons that ignore case.
UpperLetters == <<"A","B","C","D","E","F","G","H","I","J","K","L","M",
                  "N","O","P","Q","R","S","T","U","V","W","X","Y","Z">>
LowerLetters == <<"a","b","c","d","e","f","g","h","i","j","k","l","m",
                  "n","o","p","q","r","s","t","u","v","w","x","y","z">>

to_ascii_lowercase(s) ==
    [i \in 1..Len(s) |->
        IF \E n \in 1..26 : UpperLetters[n] = s[i]
        THEN LowerLetters[CHOOSE n \in 1..26 : UpperLetters[n] = s[i]]
        ELSE s[i]]

\* Variant: the registry key is matched ignoring case.
find_ignore_case(servers, key) ==
    IF \E i \in 1..Len(servers) : servers[i][1] = to_ascii_lowercase(key)
    THEN LET i == CHOOSE k \in 1..Len(servers) :
                      /\ servers[k][1] = to_ascii_lowercase(key)
                      /\ \A j \in 1..(k-1) : servers[j][1] # to_ascii_lowercase(key)
         IN  Some(servers[i])
    ELSE None

\* Variant: a miss yields the first entry instead of nothing.
find_or_first(servers, key) ==
    IF \E i \in 1..Len(servers) : servers[i][1] = key
    THEN LET i == CHOOSE k \in 1..Len(servers) :
                      servers[k][1] = key /\ \A j \in 1..(k-1) : servers[j][1] # key
         IN  Some(servers[i])
    ELSE Some(servers[1])

\* servers.iter().find(|(t,_,_)| t == tld) : the first matching entry.
find(servers, key) ==
    IF \E i \in 1..Len(servers) : servers[i][1] = key
    THEN LET i == CHOOSE k \in 1..Len(servers) :
                      servers[k][1] = key /\ \A j \in 1..(k-1) : servers[j][1] # key
         IN  Some(servers[i])
    ELSE None

\* char::is_whitespace, on the characters that occur here.
is_whitespace(c) == c \in {" ", "\t", "\n", "\r"}

RECURSIVE trim_start(_)
trim_start(s) ==
    IF s # <<>> /\ is_whitespace(s[1]) THEN trim_start(Tail(s)) ELSE s

RECURSIVE trim_end(_)
trim_end(s) ==
    IF s # <<>> /\ is_whitespace(s[Len(s)])
    THEN trim_end(SubSeq(s, 1, Len(s)-1)) ELSE s

trim(s) == trim_end(trim_start(s))

is_empty(s) == Len(s) = 0

\* Variant: the registry entry's prefix is left out of the query line.
format_query_no_prefix(prefix, tgt) == tgt \o <<"\r", "\n">>

\* format!("{}{}\r\n", prefix, target)
format_query(prefix, tgt) == prefix \o tgt \o <<"\r", "\n">>

\* perform_whois lines 73-74: the registry entry of the target's TLD, if any.
select_server(tgt) ==
    LET extracted == get_tld(tgt)
    IN  IF extracted # None
        THEN find(create_whois_servers, extracted[1]) ELSE None

\* Variant: the emptiness check without the trim.
check_response_no_trim(resp) ==
    IF is_empty(resp)
    THEN Err(<<"Empty response from server">>)
    ELSE Ok(resp)

\* Variant: the trimmed text is returned as the body.
check_response_trimmed(resp) ==
    IF is_empty(trim(resp))
    THEN Err(<<"Empty response from server">>)
    ELSE Ok(trim(resp))

\* query_whois_server lines 110-114: the emptiness check and the result.
check_response(resp) ==
    IF is_empty(trim(resp))
    THEN Err(<<"Empty response from server">>)
    ELSE Ok(resp)

\* colored::Colorize: the text between the escape sequences of its style
\* when colouring is active for the process, the bare text otherwise.
\* "ESC" stands for the escape character.
styled(code, text) ==
    IF colorize THEN <<"ESC[" \o code \o "m", text, "ESC[0m">> ELSE <<text>>

green_bold(text) == styled("1;32", text)
blue(text) == styled("34", text)

\* "-".repeat(50)
repeat(c, n) == [i \in 1..n |-> c]

\* Variant: the "Server used" line does not name the server.
print_whois_result_unnamed(server, result) ==
    << green_bold("WHOIS Information:"),
       repeat("-", 50),
       <<"Server used: ">>,
       repeat("-", 50),
       result >>

\* print_whois_result: the five lines written to standard output.
print_whois_result(server, result) ==
    << green_bold("WHOIS Information:"),
       repeat("-", 50),
       <<"Server used: ">> \o blue(server),
       repeat("-", 50),
       result >>

\* eprintln! of line 81
tld_warning(e) == <<"TLD-specific server failed: ">> \o e \o <<". Trying IANA...">>

\* anyhow! of line 93
lookup_failed(e) == <<"WHOIS lookup failed: ">> \o e

----------------------------------------------------------------------------
(* Inputs *)

TargetChars == {".", "d", "e"}
RespChars == {"\n", "x"}

SeqsUpTo(S, n) == UNION {[1..k -> S] : k \in 0..n}

ExampleTargets ==
    { <<"e","x","a","m","p","l","e",".","c","o","m">>,
      <<"e","x","a","m","p","l","e",".","c","o","m",".">>,
      <<"E","X","A","M","P","L","E",".","C","O","M">>,
      <<"2","0","3",".","0",".","1","1","3",".","1">>,
      <<"a",".","b",".","c",".","d","e">>,
      <<"n","o","D","o","t","H","e","r","e">>,
      <<"c","o","m">>,
      <<"w",".","o","r","g">>,
      <<"w",".","z","z">> }

Targets == ExampleTargets \cup SeqsUpTo(TargetChars, MaxTargetLen)

ConnectErrors == {<<"connection refused">>, <<"failed to lookup address">>,
                  <<"connection timed out">>}
SetTimeoutErrors == {<<"setsockopt failed">>}
WriteErrors == {<<"write timed out">>, <<"broken pipe">>}
ReadErrors == {<<"read timed out">>, <<"connection reset">>,
               <<"stream did not contain valid UTF-8">>}

----------------------------------------------------------------------------
(* State *)

NoAttempt == [kind |-> "none", server |-> "", prefix |-> <<>>]

Init ==
    /\ target \in Targets
    /\ colorize \in BOOLEAN
    /\ tld = None
    /\ pc = "main"
    /\ attempt = NoAttempt
    /\ calls = <<>>
    /\ conns = <<>>
    /\ response = <<>>
    /\ qres = Pending
    /\ printed = <<>>
    /\ stdout = <<>>
    /\ stderr = <<>>
    /\ ret = Pending
    /\ exit = -1

cur == Len(conns)

\* Entering query_whois_server(server, prefix, target).
call_query(kind, server, prefix) ==
    /\ attempt' = [kind |-> kind, server |-> server, prefix |-> prefix]
    /\ calls' = Append(calls, [kind |-> kind, server |-> server,
                               prefix |-> prefix, target |-> target,
                               conn |-> 0, result |-> Pending])
    /\ response' = <<>>
    /\ qres' = Pending
    /\ pc' = "connect"

\* Variant: the stream outlives the call that opened it.
return_query_keep_stream(r, cs) ==
    /\ qres' = r
    /\ calls' = [calls EXCEPT ![Len(calls)].result = r]
    /\ conns' = cs
    /\ response' = <<>>
    /\ pc' = "returned"

\* Leaving query_whois_server with result r; cs is the connection log at
\* that point.  The stream, once connected, is dropped on every way out.
return_query(r, cs) ==
    /\ qres' = r
    /\ calls' = [calls EXCEPT ![Len(calls)].result = r]
    /\ conns' = IF pc = "connect" THEN cs
                ELSE [cs EXCEPT ![Len(cs)].open = FALSE]
    /\ response' = <<>>
    /\ pc' = "returned"

----------------------------------------------------------------------------
(* main / perform_whois, lines 50-75 and 87-88: the first transport call *)

perform_whois_begin ==
    /\ pc = "main"
    /\ tld' = get_tld(target)
    /\ LET e == select_server(target)
       IN  IF e # None
           THEN call_query("tld", e[1][2], e[1][3])
           ELSE call_query("iana", IANA, <<>>)
    /\ UNCHANGED <<target, colorize, conns, printed, stdout, stderr, ret, exit>>

----------------------------------------------------------------------------
(* query_whois_server *)

\* Variant: the query is written before the timeouts are applied.
connect_ok_no_timeouts ==
    /\ pc = "connect"
    /\ conns' = Append(conns, [host |-> attempt.server, port |-> WHOIS_PORT,
                               open |-> TRUE, read_timeout |-> 0,
                               write_timeout |-> 0, sent |-> <<>>,
                               written |-> FALSE, recv |-> <<>>,
                               beyond |-> 0, eof |-> FALSE])
    /\ calls' = [calls EXCEPT ![Len(calls)].conn = Len(conns) + 1]
    /\ pc' = "write"
    /\ UNCHANGED <<target, colorize, tld, attempt, response, qres, printed,
                   stdout, stderr, ret, exit>>

connect_ok ==
    /\ pc = "connect"
    /\ conns' = Append(conns, [host |-> attempt.server, port |-> WHOIS_PORT,
                               open |-> TRUE, read_timeout |-> 0,
                               write_timeout |-> 0, sent |-> <<>>,
                               written |-> FALSE, recv |-> <<>>,
                               beyond |-> 0, eof |-> FALSE])
    /\ calls' = [calls EXCEPT ![Len(calls)].conn = Len(conns) + 1]
    /\ pc' = "set_read_timeout"
    /\ UNCHANGED <<target, colorize, tld, attempt, response, qres, printed, stdout,
                   stderr, ret, exit>>

connect_err ==
    /\ pc = "connect"
    /\ \E e \in ConnectErrors : return_query(Err(e), conns)
    /\ UNCHANGED <<target, colorize, tld, attempt, printed, stdout, stderr, ret, exit>>

set_read_timeout_ok ==
    /\ pc = "set_read_timeout"
    /\ conns' = [conns EXCEPT ![cur].read_timeout = TIMEOUT_SECS]
    /\ pc' = "set_write_timeout"
    /\ UNCHANGED <<target, colorize, tld, attempt, calls, response, qres, printed, stdout,
                   stderr, ret, exit>>

set_read_timeout_err ==
    /\ pc = "set_read_timeout"
    /\ \E e \in SetTimeoutErrors : return_query(Err(e), conns)
    /\ UNCHANGED <<target, colorize, tld, attempt, printed, stdout, stderr, ret, exit>>

set_write_timeout_ok ==
    /\ pc = "set_write_timeout"
    /\ conns' = [conns EXCEPT ![cur].write_timeout = TIMEOUT_SECS]
    /\ pc' = "write"
    /\ UNCHANGED <<target, colorize, tld, attempt, calls, response, qres, printed, stdout,
                   stderr, ret, exit>>

set_write_timeout_err ==
    /\ pc = "set_write_timeout"
    /\ \E e \in SetTimeoutErrors : return_query(Err(e), conns)
    /\ UNCHANGED <<target, colorize, tld, attempt, printed, stdout, stderr, ret, exit>>

\* write_all: every byte of the query line reaches the socket.
write_all_ok ==
    /\ pc = "write"
    /\ conns' = [conns EXCEPT
                   ![cur].sent = format_query(attempt.prefix, target),
                   ![cur].written = TRUE]
    /\ pc' = "read"
    /\ UNCHANGED <<target, colorize, tld, attempt, calls, response, qres, printed, stdout,
                   stderr, ret, exit>>

\* write_all fails after a proper prefix of the query line was written.
write_all_err ==
    /\ pc = "write"
    /\ LET q == format_query(attempt.prefix, target)
       IN  \E k \in 0..(Len(q) - 1), e \in WriteErrors :
               return_query(Err(e), [conns EXCEPT ![cur].sent = SubSeq(q, 1, k)])
    /\ UNCHANGED <<target, colorize, tld, attempt, printed, stdout, stderr, ret, exit>>

\* read_to_string: one more character arrives from the peer.
read_chunk ==
    /\ pc = "read"
    /\ Len(response) < MaxRespLen
    /\ \E c \in RespChars :
          /\ response' = Append(response, c)
          /\ conns' = [conns EXCEPT ![cur].recv = Append(@, c)]
    /\ UNCHANGED <<target, colorize, tld, pc, attempt, calls, qres, printed, stdout, stderr,
                   ret, exit>>

\* read_to_string: the peer, not closing, sends yet another character after
\* MaxRespLen of them.  Such text is not kept here: `beyond` only records
\* that the read goes on (1 and 2 alternate with each further character).
read_chunk_beyond ==
    /\ pc = "read"
    /\ Len(response) = MaxRespLen
    /\ conns' = [conns EXCEPT ![cur].beyond = IF @ = 1 THEN 2 ELSE 1]
    /\ UNCHANGED <<target, colorize, tld, pc, attempt, calls, response, qres,
                   printed, stdout, stderr, ret, exit>>

\* read_to_string: the peer closes; then the emptiness check of line 110.
read_eof ==
    /\ pc = "read"
    /\ conns[cur].beyond = 0
    /\ return_query(check_response(response),
                    [conns EXCEPT ![cur].eof = TRUE])
    /\ UNCHANGED <<target, colorize, tld, attempt, printed, stdout, stderr, ret, exit>>

\* Variant: a failed read ends the response like a close by the peer.
read_err_as_eof ==
    /\ pc = "read"
    /\ return_query(check_response(response), conns)
    /\ UNCHANGED <<target, colorize, tld, attempt, printed, stdout, stderr, ret, exit>>

\* Variant: no timeout is in force, so a stalled read never returns.
read_err_blocks ==
    /\ pc = "read"
    /\ pc' = "blocked"
    /\ UNCHANGED <<target, colorize, tld, attempt, calls, conns, response, qres,
                   printed, stdout, stderr, ret, exit>>

\* read_to_string fails (timeout, reset, invalid UTF-8): the buffer is lost.
read_err ==
    /\ pc = "read"
    /\ \E e \in ReadErrors : return_query(Err(e), conns)
    /\ UNCHANGED <<target, colorize, tld, attempt, printed, stdout, stderr, ret, exit>>

----------------------------------------------------------------------------
(* perform_whois: what it does with the result of a transport call *)

\* Variant: the `return Ok(())` of line 78 is missing.
perform_whois_tld_ok_no_return ==
    /\ pc = "returned" /\ attempt.kind = "tld" /\ qres.ok
    /\ printed' = Append(printed, [server |-> attempt.server, result |-> qres.val])
    /\ stdout' = stdout \o print_whois_result(attempt.server, qres.val)
    /\ call_query("iana", IANA, <<>>)
    /\ UNCHANGED <<target, colorize, tld, conns, stderr, ret, exit>>

\* lines 76-79
perform_whois_tld_ok ==
    /\ pc = "returned" /\ attempt.kind = "tld" /\ qres.ok
    /\ printed' = Append(printed, [server |-> attempt.server, result |-> qres.val])
    /\ stdout' = stdout \o print_whois_result(attempt.server, qres.val)
    /\ ret' = Ok(<<>>)
    /\ pc' = "main_ret"
    /\ UNCHANGED <<target, colorize, tld, attempt, calls, conns, response, qres, stderr, exit>>

\* Variant: the error of the TLD-specific call is propagated.
perform_whois_tld_err_fatal ==
    /\ pc = "returned" /\ attempt.kind = "tld" /\ ~qres.ok
    /\ ret' = Err(lookup_failed(qres.val))
    /\ pc' = "main_ret"
    /\ UNCHANGED <<target, colorize, tld, attempt, calls, conns, response, qres, printed,
                   stdout, stderr, exit>>

\* Variant: the TLD-specific server is asked again.
perform_whois_tld_err_retry ==
    /\ pc = "returned" /\ attempt.kind = "tld" /\ ~qres.ok
    /\ stderr' = Append(stderr, tld_warning(qres.val))
    /\ call_query("tld", attempt.server, attempt.prefix)
    /\ UNCHANGED <<target, colorize, tld, conns, printed, stdout, ret, exit>>

\* Variant: the fallback reuses the registry entry's prefix.
perform_whois_tld_err_keep_prefix ==
    /\ pc = "returned" /\ attempt.kind = "tld" /\ ~qres.ok
    /\ stderr' = Append(stderr, tld_warning(qres.val))
    /\ call_query("iana", IANA, attempt.prefix)
    /\ UNCHANGED <<target, colorize, tld, conns, printed, stdout, ret, exit>>

\* lines 80-82, then the call of line 88
perform_whois_tld_err ==
    /\ pc = "returned" /\ attempt.kind = "tld" /\ ~qres.ok
    /\ stderr' = Append(stderr, tld_warning(qres.val))
    /\ call_query("iana", IANA, <<>>)
    /\ UNCHANGED <<target, colorize, tld, conns, printed, stdout, ret, exit>>

\* Variant: the fallback's body is printed under the first server asked.
perform_whois_iana_ok_first_server ==
    /\ pc = "returned" /\ attempt.kind = "iana" /\ qres.ok
    /\ printed' = Append(printed, [server |-> calls[1].server, result |-> qres.val])
    /\ stdout' = stdout \o print_whois_result(calls[1].server, qres.val)
    /\ ret' = Ok(<<>>)
    /\ pc' = "main_ret"
    /\ UNCHANGED <<target, colorize, tld, attempt, calls, conns, response, qres, stderr, exit>>

\* lines 89-92
perform_whois_iana_ok ==
    /\ pc = "returned" /\ attempt.kind = "iana" /\ qres.ok
    /\ printed' = Append(printed, [server |-> IANA, result |-> qres.val])
    /\ stdout' = stdout \o print_whois_result(IANA, qres.val)
    /\ ret' = Ok(<<>>)
    /\ pc' = "main_ret"
    /\ UNCHANGED <<target, colorize, tld, attempt, calls, conns, response, qres, stderr, exit>>

\* Variant: the first call's error is reported as the final cause.
perform_whois_iana_err_first_cause ==
    /\ pc = "returned" /\ attempt.kind = "iana" /\ ~qres.ok
    /\ ret' = Err(lookup_failed(calls[1].result.val))
    /\ pc' = "main_ret"
    /\ UNCHANGED <<target, colorize, tld, attempt, calls, conns, response, qres, printed,
                   stdout, stderr, exit>>

\* line 93
perform_whois_iana_err ==
    /\ pc = "returned" /\ attempt.kind = "iana" /\ ~qres.ok
    /\ ret' = Err(lookup_failed(qres.val))
    /\ pc' = "main_ret"
    /\ UNCHANGED <<target, colorize, tld, attempt, calls, conns, response, qres, printed,
                   stdout, stderr, exit>>

----------------------------------------------------------------------------
(* main, lines 55 and 62: `?` on the result; the runtime reports an Err *)

main_ok ==
    /\ pc = "main_ret" /\ ret.ok
    /\ exit' = 0
    /\ pc' = "done"
    /\ UNCHANGED <<target, colorize, tld, attempt, calls, conns, response, qres, printed,
                   stdout, stderr, ret>>

\* Variant: main discards the result of perform_whois.
main_err_ignored ==
    /\ pc = "main_ret" /\ ~ret.ok
    /\ exit' = 0
    /\ pc' = "done"
    /\ UNCHANGED <<target, colorize, tld, attempt, calls, conns, response, qres, printed,
                   stdout, stderr, ret>>

main_err ==
    /\ pc = "main_ret" /\ ~ret.ok
    /\ stderr' = Append(stderr, <<"Error: ">> \o ret.val)
    /\ exit' = 1
    /\ pc' = "done"
    /\ UNCHANGED <<target, colorize, tld, attempt, calls, conns, response, qres, printed,
                   stdout, ret>>

Next ==
    \/ perform_whois_begin
    \/ connect_ok
    \/ connect_err
    \/ set_read_timeout_ok
    \/ set_read_timeout_err
    \/ set_write_timeout_ok
    \/ set_write_timeout_err
    \/ write_all_ok
    \/ write_all_err
    \/ read_chunk
    \/ read_chunk_beyond
    \/ read_eof
    \/ read_err
    \/ perform_whois_tld_ok
    \/ perform_whois_tld_err
    \/ perform_whois_iana_ok
    \/ perform_whois_iana_err
    \/ main_ok
    \/ main_err

Spec == Init /\ [][Next]_vars

\* Every blocking call returns and the program takes its next step: the
\* code is sequential, so at each point exactly one call is in progress.
\* Which way a call returns is up to the peer and is not constrained.
FairSpec == Spec /\ WF_vars(Next)

----------------------------------------------------------------------------
(* Vocabulary of the properties *)

servers == create_whois_servers
Entries == 1..Len(servers)
Calls == 1..Len(calls)
Conns == 1..Len(conns)

IsErr(r) == ~r.ok /\ r # Pending
Finished == pc \in {"main_ret", "done"}
HasDot(s) == \E i \in 1..Len(s) : s[i] = "."

\* The "Server used" line for server s, without and with colouring.
ServerUsedLines(s) ==
    { <<"Server used: ", s>>, <<"Server used: ", "ESC[34m", s, "ESC[0m">> }

example_com == <<"e","x","a","m","p","l","e",".","c","o","m">>
ip_literal == <<"2","0","3",".","0",".","1","1","3",".","1">>

----------------------------------------------------------------------------
\* C1: when the target's extracted TLD has a registry entry and the call to
\* that entry's host succeeds, that call is the only transport attempt, no
\* connection to whois.iana.org is opened, and the result is reported under
\* the entry's host.
C1_SpecificSuccessIsTerminal ==
    \A k \in Entries :
        ( /\ get_tld(target) = Some(servers[k][1])
          /\ \E i \in Calls : calls[i].server = servers[k][2] /\ calls[i].result.ok )
        => /\ Len(calls) = 1
           /\ \A j \in Conns : conns[j].host # IANA
           /\ \A j \in 1..Len(printed) : printed[j].server = servers[k][2]
           /\ Finished => (ret.ok /\ Len(printed) = 1)

C1_Witness ==
    /\ pc = "done" /\ exit = 0
    /\ target = example_com
    /\ Len(calls) = 1 /\ calls[1].result.ok
    /\ Len(printed) = 1 /\ printed[1].server = "whois.verisign-grs.com"

\* C2: when the target's extracted TLD equals no registry key (as for the
\* IP literal 203.0.113.1, whose TLD is "1"), every transport attempt and
\* every connection of the invocation goes to whois.iana.org.
C2_UnknownTldOnlyIana ==
    (\A k \in Entries : get_tld(target) # Some(servers[k][1]))
    => /\ \A i \in Calls : calls[i].server = IANA
       /\ \A j \in Conns : conns[j].host = IANA

C2_Witness ==
    /\ target = ip_literal
    /\ get_tld(target) = Some(<<"1">>)
    /\ Len(conns) = 1 /\ conns[1].host = IANA /\ conns[1].written
    /\ pc = "done"

\* C3: once the TLD-specific call has failed and perform_whois has handled
\* the failure, a call to whois.iana.org has been made; if that call
\* succeeds the invocation succeeds and reports whois.iana.org.
C3_SpecificFailureFallsBack ==
    ( /\ Len(calls) >= 1 /\ calls[1].kind = "tld" /\ IsErr(calls[1].result)
      /\ ~(pc = "returned" /\ attempt.kind = "tld") )
    => /\ Len(calls) = 2 /\ calls[2].server = IANA
       /\ (Finished /\ calls[2].result.ok)
             => /\ ret.ok
                /\ printed = <<[server |-> IANA, result |-> calls[2].result.val]>>

C3_Witness ==
    /\ pc = "done" /\ exit = 0
    /\ calls[1].kind = "tld"
    /\ calls[1].result = Err(<<"Empty response from server">>)
    /\ calls[2].result.ok
    /\ printed[1].server = IANA

\* C4: an invocation makes at most two transport attempts, at most one to a
\* registry host and at most one to whois.iana.org; after a failed
\* TLD-specific attempt exactly one fallback attempt is made and the
\* registry host is not asked again.
C4_AtMostTwoAttempts ==
    /\ Len(calls) <= 2
    /\ Len(conns) <= Len(calls)
    /\ Cardinality({i \in Calls : calls[i].server # IANA}) <= 1
    /\ Cardinality({i \in Calls : calls[i].server = IANA}) <= 1
    /\ (Finished /\ Len(calls) >= 1 /\ calls[1].kind = "tld" /\ IsErr(calls[1].result))
          => Cardinality({i \in Calls : calls[i].server = IANA}) = 1

C4_Witness ==
    /\ pc = "done"
    /\ Len(calls) = 2
    /\ calls[1].kind = "tld" /\ calls[1].result = Err(<<"read timed out">>)
    /\ calls[2].server = IANA

\* C5: for a target without a '.' separator (also one equal to a registry
\* key, such as "com" or "de") the TLD-specific step is skipped: every
\* transport attempt and every connection goes to whois.iana.org.
C5_NoDotOnlyIana ==
    ~HasDot(target)
    => /\ \A i \in Calls : calls[i].kind # "tld" /\ calls[i].server = IANA
       /\ \A j \in Conns : conns[j].host = IANA

AllWhitespace(s) == \A i \in 1..Len(s) : s[i] \in {" ", "\t", "\n", "\r"}
EmptyResponse == Err(<<"Empty response from server">>)

\* C6: a transport call whose peer closes after sending nothing or only
\* whitespace fails with the empty-response error; no call succeeds with an
\* empty or whitespace-only body, no such body is printed, and after such
\* an outcome from the TLD-specific server the fallback is called.
C6_EmptyResponseIsFailure ==
    /\ \A i \in Calls :
          /\ calls[i].result.ok => ~AllWhitespace(calls[i].result.val)
          /\ ( /\ calls[i].conn # 0
               /\ conns[calls[i].conn].eof
               /\ AllWhitespace(conns[calls[i].conn].recv) )
             => /\ calls[i].result = EmptyResponse
                /\ (calls[i].kind = "tld" /\ pc # "returned")
                      => (Len(calls) = 2 /\ calls[2].server = IANA)
    /\ \A j \in 1..Len(printed) : ~AllWhitespace(printed[j].result)

C6_Witness ==
    /\ pc = "done"
    /\ conns # <<>>
    /\ calls[1].kind = "tld" /\ calls[1].conn = 1
    /\ conns[1].eof /\ conns[1].recv = <<"\n", "\n">>
    /\ calls[1].result = EmptyResponse
    /\ Len(calls) = 2

\* C7: perform_whois fails only when its last transport call was the one to
\* whois.iana.org and that call failed; the reported reason is that call's
\* error, and a failure of the TLD-specific call appears only in the
\* warning line written before the fallback.
C7_FailureIsFallbackFailure ==
    /\ IsErr(ret)
       => /\ calls # <<>>
          /\ calls[Len(calls)].server = IANA
          /\ IsErr(calls[Len(calls)].result)
          /\ ret.val = <<"WHOIS lookup failed: ">> \o calls[Len(calls)].result.val
          /\ pc = "done"
             => /\ exit = 1
                /\ stderr[Len(stderr)] =
                     <<"Error: ", "WHOIS lookup failed: ">> \o calls[Len(calls)].result.val
    /\ exit = 1 => IsErr(ret)
    /\ (Finished /\ calls[1].kind = "tld" /\ IsErr(calls[1].result))
       => stderr[1] = <<"TLD-specific server failed: ">> \o calls[1].result.val
                         \o <<". Trying IANA...">>

C7_Witness ==
    /\ pc = "done" /\ exit = 1
    /\ Len(calls) = 2
    /\ calls[1].result = Err(<<"connection refused">>)
    /\ calls[2].result = Err(<<"read timed out">>)

\* C8: a successful invocation has called print_whois_result exactly once,
\* and the server it names is the host of the connection from which the
\* printed body was received, the body being the result of the call to
\* that server.
C8_OneResultUnderItsServer ==
    (Finished /\ ret.ok)
    => /\ Len(printed) = 1
       /\ Len(stdout) = 5
       /\ stdout[3] \in ServerUsedLines(printed[1].server)
       /\ stdout[5] = printed[1].result
       /\ \E i \in Calls :
             /\ calls[i].server = printed[1].server
             /\ calls[i].result = Ok(printed[1].result)
             /\ calls[i].conn # 0
             /\ conns[calls[i].conn].host = printed[1].server
             /\ conns[calls[i].conn].recv = printed[1].result

C8_Witness ==
    /\ pc = "done" /\ exit = 0
    /\ Len(calls) = 2 /\ Len(conns) = 2
    /\ conns[1].host = "whois.denic.de" /\ conns[1].recv = <<"x">>
    /\ printed = <<[server |-> IANA, result |-> <<"x", "x">>]>>

\* C9 as stated: a failing invocation emits a single diagnostic message,
\* prints no WHOIS result and exits with a non-zero status.
C9_SingleDiagnostic ==
    (pc = "done" /\ ~ret.ok)
    => /\ Len(stderr) = 1
       /\ printed = <<>> /\ stdout = <<>>
       /\ exit # 0

\* C9 amended: a failing invocation prints no WHOIS result, exits with a
\* non-zero status and emits exactly one final error message, which names
\* the fallback's failure; it is the only diagnostic message when the
\* TLD-specific step was skipped, and is preceded by one warning naming the
\* TLD-specific failure when a TLD-specific attempt failed first.
C9_OneFinalError ==
    (pc = "done" /\ ~ret.ok)
    => /\ printed = <<>> /\ stdout = <<>>
       /\ exit = 1
       /\ Cardinality({m \in 1..Len(stderr) : stderr[m][1] = "Error: "}) = 1
       /\ stderr[Len(stderr)] =
             <<"Error: ", "WHOIS lookup failed: ">> \o calls[Len(calls)].result.val
       /\ Len(stderr) = 1 + Cardinality({i \in Calls : calls[i].kind = "tld"})
       /\ \A i \in Calls : calls[i].kind = "tld"
             => stderr[1] = <<"TLD-specific server failed: ">>
                               \o calls[i].result.val \o <<". Trying IANA...">>

C9_Witness ==
    /\ pc = "done" /\ exit = 1
    /\ target = example_com
    /\ Len(calls) = 2 /\ calls[1].kind = "tld"
    /\ Len(stderr) = 2
    /\ stderr[1][1] = "TLD-specific server failed: "
    /\ stderr[2][1] = "Error: "

\* C10: every connection of a TLD-specific attempt goes to the host of the
\* registry entry of the target's TLD on port 43; once write_all has
\* succeeded the bytes sent are exactly the entry's prefix, the unaltered
\* target and CR LF, and before that they are a prefix of that line.
C10_SpecificQueryLine ==
    \A k \in Entries :
        get_tld(target) = Some(servers[k][1])
        => \A i \in Calls :
              calls[i].kind = "tld"
              => /\ calls[i].server = servers[k][2]
                 /\ calls[i].target = target
                 /\ calls[i].conn # 0
                    => LET c == conns[calls[i].conn]
                           line == servers[k][3] \o target \o <<"\r", "\n">>
                       IN  /\ c.host = servers[k][2]
                           /\ c.port = 43
                           /\ c.written => c.sent = line
                           /\ Len(c.sent) <= Len(line)
                           /\ c.sent = SubSeq(line, 1, Len(c.sent))

C10_Witness ==
    /\ target = example_com
    /\ conns # <<>>
    /\ conns[1].host = "whois.verisign-grs.com" /\ conns[1].port = 43
    /\ conns[1].written
    /\ conns[1].sent = <<"d","o","m","a","i","n"," ","e","x","a","m","p","l","e",
                         ".","c","o","m","\r","\n">>


\* C11: every call to whois.iana.org carries the empty prefix and the
\* unaltered target and connects to whois.iana.org on port 43; once
\* write_all has succeeded the bytes sent are exactly the target and CR LF
\* (before that a prefix of that line), also when the call follows a failed
\* TLD-specific attempt whose entry has a non-empty prefix.
C11_FallbackQueryLine ==
    \A i \in Calls :
        calls[i].server = IANA
        => /\ calls[i].prefix = <<>>
           /\ calls[i].target = target
           /\ calls[i].conn # 0
              => LET c == conns[calls[i].conn]
                     line == target \o <<"\r", "\n">>
                 IN  /\ c.host = IANA
                     /\ c.port = 43
                     /\ c.written => c.sent = line
                     /\ Len(c.sent) <= Len(line)
                     /\ c.sent = SubSeq(line, 1, Len(c.sent))

C11_Witness ==
    /\ target = <<"a",".","b",".","c",".","d","e">>
    /\ Len(calls) = 2 /\ Len(conns) = 2
    /\ calls[1].prefix = <<"-","T"," ","d","n"," ">> /\ IsErr(calls[1].result)
    /\ conns[1].written
    /\ conns[2].host = IANA /\ conns[2].port = 43 /\ conns[2].written
    /\ conns[2].sent = <<"a",".","b",".","c",".","d","e","\r","\n">>


\* C12: a transport call whose read ended otherwise than by the peer's
\* close fails, whatever had been received; its buffer is dropped, every
\* printed body is the complete text of a connection read to its close,
\* and after such a failure of the TLD-specific call the fallback is called.
C12_PartialResponseDiscarded ==
    /\ \A i \in Calls :
          ( /\ calls[i].conn # 0
            /\ calls[i].result # Pending
            /\ ~conns[calls[i].conn].eof )
          => /\ IsErr(calls[i].result)
             /\ (i = Len(calls) /\ pc = "returned") => response = <<>>
             /\ (calls[i].kind = "tld" /\ pc # "returned")
                   => (Len(calls) = 2 /\ calls[2].server = IANA)
    /\ \A j \in 1..Len(printed) :
          \E c \in Conns : /\ conns[c].eof
                           /\ conns[c].host = printed[j].server
                           /\ conns[c].recv = printed[j].result
    /\ stdout # <<>>
       => \E c \in Conns : conns[c].eof /\ conns[c].recv = stdout[Len(stdout)]

C12_Witness ==
    /\ pc = "done"
    /\ Len(calls) = 2 /\ Len(conns) = 2
    /\ calls[1].kind = "tld"
    /\ conns[1].recv = <<"x">> /\ ~conns[1].eof
    /\ calls[1].result = Err(<<"read timed out">>)
    /\ printed = <<[server |-> IANA, result |-> <<"x", "\n">>]>>


\* C13: the body of a successful transport call is exactly the text its
\* connection received up to the peer's close, surrounding whitespace
\* included, and the last line print_whois_result writes is that body.
C13_BodyVerbatim ==
    /\ \A i \in Calls :
          calls[i].result.ok
          => /\ calls[i].conn # 0
             /\ conns[calls[i].conn].eof
             /\ calls[i].result.val = conns[calls[i].conn].recv
    /\ (Finished /\ ret.ok)
       => /\ calls[Len(calls)].result.ok
          /\ Len(stdout) = 5
          /\ stdout[5] = conns[calls[Len(calls)].conn].recv

C13_Witness ==
    /\ pc = "done" /\ exit = 0
    /\ Len(conns) = 1
    /\ conns[1].recv = <<"x", "\n">>
    /\ calls[1].result = Ok(<<"x", "\n">>)
    /\ stdout[5] = <<"x", "\n">>

C13_WitnessLeading ==
    /\ pc = "done" /\ exit = 0
    /\ Len(conns) = 1
    /\ conns[1].recv = <<"\n", "x">>
    /\ stdout[5] = <<"\n", "x">>


\* C14: a transport call begins only after every earlier one has returned
\* and its connection is closed: at most one connection is open, and no
\* connection to a registry host is open while a call to whois.iana.org is
\* pending or connected.
C14_AttemptsDoNotOverlap ==
    /\ Cardinality({c \in Conns : conns[c].open}) <= 1
    /\ \A i \in Calls : i < Len(calls) => calls[i].result # Pending
    /\ \A c \in Conns :
          conns[c].open
          => /\ c = Len(conns)
             /\ calls[Len(calls)].conn = c
             /\ calls[Len(calls)].result = Pending
    /\ \A c \in Conns, i \in Calls :
          (conns[c].host # IANA /\ conns[c].open)
          => ~(calls[i].server = IANA)

C14_Witness ==
    /\ Len(conns) = 2 /\ Len(calls) = 2
    /\ conns[1].host = "whois.verisign-grs.com" /\ ~conns[1].open
    /\ conns[2].host = IANA /\ conns[2].open
    /\ pc = "read"


\* The last non-empty '.'-delimited segment of s, for s with a character
\* other than '.': the longest run without '.' that ends at the last such
\* character.
LastNonEmptySegment(s) ==
    LET j == CHOOSE n \in 1..Len(s) :
                 s[n] # "." /\ \A m \in (n+1)..Len(s) : s[m] = "."
        i == CHOOSE n \in 1..j :
                 /\ \A m \in n..j : s[m] # "."
                 /\ (n = 1 \/ s[n-1] = ".")
    IN  SubSeq(s, i, j)

HasSegment(s) == \E n \in 1..Len(s) : s[n] # "."

\* C15: for a target with at least one '.', the TLD that perform_whois
\* obtains from get_tld is the last non-empty '.'-delimited segment
\* ("com" for "example.com", "de" for "a.b.c.de", and "com", not the empty
\* string, for "example.com.").
C15_LastNonEmptySegment ==
    (pc # "main" /\ HasDot(target) /\ HasSegment(target))
    => tld = Some(LastNonEmptySegment(target))

\* C16: for a target without a '.', the TLD that perform_whois obtains
\* from get_tld is nothing.
C16_NoDotNoTld ==
    (pc # "main" /\ ~HasDot(target)) => tld = None


\* C17 as stated: on success the output begins with the line
\* "Server used: <respondingServer>".
C17_OutputBeginsWithServerUsed ==
    (Finished /\ ret.ok)
    => /\ stdout # <<>>
       /\ stdout[1] \in ServerUsedLines(printed[1].server)

\* C17 amended: on success the output begins with the header line
\* "WHOIS Information:" and a separator of 50 dashes, and its third line
\* is "Server used: <respondingServer>" (the server name, like the header,
\* between colour escape sequences when colouring is active).
C17_ServerUsedIsThirdLine ==
    (Finished /\ ret.ok)
    => /\ Len(stdout) = 5
       /\ stdout[1] = IF colorize
                      THEN <<"ESC[1;32m", "WHOIS Information:", "ESC[0m">>
                      ELSE <<"WHOIS Information:">>
       /\ Len(stdout[2]) = 50 /\ \A i \in 1..50 : stdout[2][i] = "-"
       /\ stdout[3] = IF colorize
                      THEN <<"Server used: ", "ESC[34m", printed[1].server, "ESC[0m">>
                      ELSE <<"Server used: ", printed[1].server>>
       /\ stdout[4] = stdout[2]
       /\ \E i \in Calls : calls[i].server = printed[1].server /\ calls[i].result.ok

C17_Witness ==
    /\ pc = "done" /\ exit = 0
    /\ target = example_com
    /\ ~colorize
    /\ stdout[1] = <<"WHOIS Information:">>
    /\ stdout[3] = <<"Server used: ", "whois.verisign-grs.com">>


EXAMPLE_COM == <<"E","X","A","M","P","L","E",".","C","O","M">>

\* C20: a TLD-specific call is made only when the extracted TLD equals a
\* registry key character for character; a target whose TLD differs from a
\* key only by letter case gets no TLD-specific call, only whois.iana.org
\* is contacted, and the target is sent in its original case.
C20_CaseSensitiveLookup ==
    /\ \A i \in Calls :
          calls[i].kind = "tld"
          => \E k \in Entries : /\ tld = Some(servers[k][1])
                                /\ calls[i].server = servers[k][2]
    /\ ( /\ pc # "main"
         /\ \A k \in Entries : tld # Some(servers[k][1])
         /\ \E k \in Entries : to_ascii_lowercase(tld[1]) = servers[k][1] )
       => /\ \A i \in Calls : calls[i].server = IANA /\ calls[i].target = target
          /\ \A c \in Conns :
                /\ conns[c].host = IANA
                /\ conns[c].written => conns[c].sent = target \o <<"\r", "\n">>

C20_Witness ==
    /\ target = EXAMPLE_COM
    /\ tld = Some(<<"C","O","M">>)
    /\ pc = "done"
    /\ Len(calls) = 1 /\ Len(conns) = 1
    /\ conns[1].host = IANA
    /\ conns[1].sent = <<"E","X","A","M","P","L","E",".","C","O","M","\r","\n">>


\* The steps of one transport call and what may follow each.
TransportSteps == {"connect", "set_read_timeout", "set_write_timeout",
                   "write", "read"}

StepSuccessors(step) ==
    CASE step = "connect" -> {"set_read_timeout", "returned"}
      [] step = "set_read_timeout" -> {"set_write_timeout", "returned"}
      [] step = "set_write_timeout" -> {"write", "returned"}
      [] step = "write" -> {"read", "returned"}
      [] step = "read" -> {"read", "returned"}

C19_ConnState ==
    \A i \in Calls :
        LET r == calls[i].result IN
        /\ (IsErr(r) /\ r.val \in ConnectErrors) => calls[i].conn = 0
        /\ calls[i].conn # 0
           => LET c == conns[calls[i].conn] IN
              /\ c.write_timeout # 0 => c.read_timeout # 0
              /\ (c.sent # <<>> \/ c.written \/ c.recv # <<>> \/ c.eof)
                    => (c.read_timeout = 10 /\ c.write_timeout = 10)
              /\ (c.recv # <<>> \/ c.eof)
                    => (c.written /\ c.sent = calls[i].prefix \o target \o <<"\r", "\n">>)
              /\ (IsErr(r) /\ r.val \in SetTimeoutErrors)
                    => (c.sent = <<>> /\ ~c.written /\ c.recv = <<>> /\ ~c.eof)
              /\ (IsErr(r) /\ r.val \in WriteErrors)
                    => (~c.written /\ c.recv = <<>> /\ ~c.eof)
              /\ (IsErr(r) /\ r.val \in ReadErrors) => ~c.eof
              /\ r # Pending => ~c.open

\* C19: within one transport call the steps follow the order connect, read
\* timeout, write timeout, write, read; nothing is sent or received before
\* both timeouts are set, nothing is received before the whole query line
\* is written, a failing step ends the call with the later steps not done,
\* and no step other than the read continuing is entered twice.
C19_StepOrder ==
    /\ []C19_ConnState
    /\ [][ /\ pc \in TransportSteps => pc' \in StepSuccessors(pc)
           /\ (pc \in TransportSteps /\ pc' = pc)
                 => /\ pc = "read" /\ Len(conns') = Len(conns)
                    /\ \/ Len(conns'[Len(conns)].recv)
                             = Len(conns[Len(conns)].recv) + 1
                       \/ conns'[Len(conns)].beyond # conns[Len(conns)].beyond
           /\ Len(conns') # Len(conns) => (pc = "connect" /\ Len(conns') = Len(conns) + 1)
         ]_vars

C19_Witness ==
    /\ pc = "returned"
    /\ Len(conns) = 1
    /\ conns[1].read_timeout = 10 /\ conns[1].write_timeout = 10
    /\ conns[1].written /\ conns[1].recv = <<"x", "x">> /\ conns[1].eof
    /\ calls[1].result.ok


\* C18 as stated: every invocation eventually terminates, whatever the
\* peers do.
C18_AlwaysTerminates == <>(pc = "done")

\* C18 amended: every invocation eventually terminates with a printed
\* result or a failure, unless a peer goes on sending characters without
\* ever closing, each within the timeout of the read in progress; a stalled
\* or unfinished operation ends in an error.
C18_TerminatesUnlessEndlessStream ==
    \/ []<><<read_chunk_beyond>>_vars
    \/ <>( /\ pc = "done"
           /\ \/ exit = 0 /\ Len(printed) = 1
              \/ exit = 1 /\ printed = <<>> /\ IsErr(ret) )

C18_Witness ==
    /\ pc = "done" /\ exit = 1
    /\ Len(calls) = 2 /\ Len(conns) = 2
    /\ conns[1].beyond # 0 /\ calls[1].result = Err(<<"read timed out">>)
    /\ conns[2].recv = <<>> /\ calls[2].result = Err(<<"read timed out">>)

====
